---- MODULE Spec2Model ----
(***************************************************************************)
(* Model of src/settings.py of the WhisperingCat plugin: the option sets,  *)
(* the pydantic Settings record with its field constraints and its two     *)
(* "after" model validators, and the two lifecycle hooks (activated,       *)
(* after_cat_bootstrap) that set LocalWhisper.download_path and            *)
(* conditionally call LocalWhisper.get_instance.                           *)
(***************************************************************************)
EXTENDS Integers, Sequences, FiniteSets, TLC

VARIABLES payload, result, LocalWhisper, calls, raised, last, invocations

vars == <<payload, result, LocalWhisper, calls, raised, last, invocations>>

settingsVars == <<payload, result>>

triggerVars == <<LocalWhisper, calls, raised, last, invocations>>

(***************************************************************************)
(* Bounds of the model.                                                    *)
(***************************************************************************)
\* raw n_workers values of a payload range over (1 - MaxWorkers)..MaxWorkers
MaxWorkers == 2

\* number of hook invocations explored in one behaviour
MaxInvocations == 3

(***************************************************************************)
(* Option sets.  An Enum member is a record of its name and its value;     *)
(* pydantic looks a raw payload value up by VALUE and stores the member.   *)
(***************************************************************************)
\* lang.alpha_2 of a sample of pycountry.languages, with its upper() form
Alpha2 == { <<"EN", "en">>, <<"IT", "it">>, <<"FR", "fr">> }

language_codes == { [name |-> a[1], value |-> a[2]] : a \in Alpha2 }

LanguageCode == language_codes

ModelSize ==
    { [name |-> "TINY",      value |-> "tiny"],
      [name |-> "TINY_EN",   value |-> "tiny.en"],
      [name |-> "BASE",      value |-> "base"],
      [name |-> "BASE_EN",   value |-> "base.en"],
      [name |-> "SMALL",     value |-> "small"],
      [name |-> "SMALL_EN",  value |-> "small.en"],
      [name |-> "MEDIUM",    value |-> "medium"],
      [name |-> "MEDIUM_EN", value |-> "medium.en"],
      [name |-> "LARGE_V1",  value |-> "large-v1"],
      [name |-> "LARGE_V2",  value |-> "large-v2"],
      [name |-> "LARGE_V3",  value |-> "large-v3"],
      [name |-> "LARGE",     value |-> "large"],
      [name |-> "OTHER",     value |-> "Other"] }

Device ==
    { [name |-> "CPU",  value |-> "cpu"],
      [name |-> "CUDA", value |-> "cuda"],
      [name |-> "AUTO", value |-> "auto"] }

ComputeType ==
    { [name |-> "INT8",          value |-> "int8"],
      [name |-> "INT8_FLOAT32",  value |-> "int8_float32"],
      [name |-> "INT8_FLOAT16",  value |-> "int8_float16"],
      [name |-> "INT8_BFLOAT16", value |-> "int8_bfloat16"],
      [name |-> "INT16",         value |-> "int16"],
      [name |-> "FLOAT16",       value |-> "float16"],
      [name |-> "BFLOAT16",      value |-> "bfloat16"],
      [name |-> "FLOAT32",       value |-> "float32"] }

\* Enum.NAME
Member(E, n) == CHOOSE m \in E : m.name = n

\* Enum(value) succeeds
IsEnumValue(E, v) == \E m \in E : m.value = v

\* Enum(value)
EnumByValue(E, v) == CHOOSE m \in E : m.value = v

(***************************************************************************)
(* Payloads.  A payload is a mapping from field names to raw values; each  *)
(* entry is modelled as [present, v], present = FALSE when the key is      *)
(* absent from the mapping (v is then a fixed placeholder).                *)
(***************************************************************************)
Opt(S, placeholder) ==
    { [present |-> FALSE, v |-> placeholder] } \cup { [present |-> TRUE, v |-> s] : s \in S }

RawLanguage == {"en", "it", "zz"}

RawModelSize == {"base", "tiny", "Other", "huge"}

RawDevice == {"auto", "cpu", "tpu"}

RawComputeType == {"float32", "int8", "float64"}

RawWorkers == (1 - MaxWorkers) .. MaxWorkers

RawApiKey == {"", "sk-test"}

RawModelPath == {"", "org/model"}

Payloads ==
    [ language           : Opt(RawLanguage, ""),
      use_local_model    : Opt(BOOLEAN, FALSE),
      api_key            : Opt(RawApiKey, ""),
      w_model_size       : Opt(RawModelSize, ""),
      device             : Opt(RawDevice, ""),
      n_workers          : Opt(RawWorkers, 0),
      compute_type       : Opt(RawComputeType, ""),
      w_model_path_or_id : Opt(RawModelPath, "") ]

Absent(placeholder) == [present |-> FALSE, v |-> placeholder]

EmptyPayload ==
    [ language           |-> Absent(""),
      use_local_model    |-> Absent(FALSE),
      api_key            |-> Absent(""),
      w_model_size       |-> Absent(""),
      device             |-> Absent(""),
      n_workers          |-> Absent(0),
      compute_type       |-> Absent(""),
      w_model_path_or_id |-> Absent("") ]

(***************************************************************************)
(* The Settings record.                                                    *)
(***************************************************************************)
\* SecretStr(value): the validated form of a supplied api_key
SecretStr(s) == [secret |-> TRUE, value |-> s]

\* a plain str; Field(default="") is not validated, so it stays a str
PlainStr(s) == [secret |-> FALSE, value |-> s]

\* bool(x) of a str or SecretStr: both define __len__
Truthy(x) == x.value # ""

DefaultsNoWorkers ==
    [ language           |-> Member(LanguageCode, "EN"),
      use_local_model    |-> TRUE,
      api_key            |-> PlainStr(""),
      w_model_size       |-> Member(ModelSize, "BASE"),
      device             |-> Member(Device, "AUTO"),
      n_workers          |-> 0,
      compute_type       |-> Member(ComputeType, "FLOAT32"),
      w_model_path_or_id |-> "" ]

\* the default= of every Field of Settings
Defaults ==
    [ language           |-> Member(LanguageCode, "EN"),
      use_local_model    |-> TRUE,
      api_key            |-> PlainStr(""),
      w_model_size       |-> Member(ModelSize, "BASE"),
      device             |-> Member(Device, "AUTO"),
      n_workers          |-> 1,
      compute_type       |-> Member(ComputeType, "FLOAT32"),
      w_model_path_or_id |-> "" ]

Err(loc, msg) == [loc |-> loc, msg |-> msg]

EnumError(p, f, E) ==
    IF p[f].present /\ ~IsEnumValue(E, p[f].v) THEN <<Err(f, "enum")>> ELSE <<>>

WorkersErrorNone(p) == <<>>

\* n_workers: int = Field(ge=1)
WorkersError(p) ==
    IF p.n_workers.present /\ ~(p.n_workers.v >= 1)
    THEN <<Err("n_workers", "greater_than_equal")>> ELSE <<>>

\* per-field validation: every failing field is reported, in field order
FieldErrors(p) ==
    EnumError(p, "language", LanguageCode)
      \o EnumError(p, "w_model_size", ModelSize)
      \o EnumError(p, "device", Device)
      \o WorkersError(p)
      \o EnumError(p, "compute_type", ComputeType)

\* the instance the field validation builds (defined when FieldErrors(p) = <<>>)
Build(p) ==
    [ language           |-> IF p.language.present
                             THEN EnumByValue(LanguageCode, p.language.v)
                             ELSE Defaults.language,
      use_local_model    |-> IF p.use_local_model.present
                             THEN p.use_local_model.v
                             ELSE Defaults.use_local_model,
      api_key            |-> IF p.api_key.present
                             THEN SecretStr(p.api_key.v)
                             ELSE Defaults.api_key,
      w_model_size       |-> IF p.w_model_size.present
                             THEN EnumByValue(ModelSize, p.w_model_size.v)
                             ELSE Defaults.w_model_size,
      device             |-> IF p.device.present
                             THEN EnumByValue(Device, p.device.v)
                             ELSE Defaults.device,
      n_workers          |-> IF p.n_workers.present
                             THEN p.n_workers.v
                             ELSE Defaults.n_workers,
      compute_type       |-> IF p.compute_type.present
                             THEN EnumByValue(ComputeType, p.compute_type.v)
                             ELSE Defaults.compute_type,
      w_model_path_or_id |-> IF p.w_model_path_or_id.present
                             THEN p.w_model_path_or_id.v
                             ELSE Defaults.w_model_path_or_id ]

MsgModelPath == "Custom Model Path is required when 'Other' is selected in Model Size"

MsgApiKey == "OpenAI API Key is required for online mode"

validate_model_path_or_id_skip(self) == <<>>

\* the ValueError raised by the validator, as a sequence of at most one error
validate_model_path_or_id(self) ==
    IF self.w_model_size = Member(ModelSize, "OTHER") /\ self.w_model_path_or_id = ""
    THEN <<Err("", MsgModelPath)>> ELSE <<>>

validate_api_key_skip(self) == <<>>

validate_api_key(self) ==
    IF ~self.use_local_model /\ ~Truthy(self.api_key)
    THEN <<Err("", MsgApiKey)>> ELSE <<>>

RunValidator(name, self) ==
    IF name = "validate_model_path_or_id" THEN validate_model_path_or_id(self)
    ELSE validate_api_key(self)

model_validators_swapped == <<"validate_api_key", "validate_model_path_or_id">>

\* the mode="after" validators in definition order
model_validators == <<"validate_model_path_or_id", "validate_api_key">>

\* run the validators from index i on; the first that raises ends the run
RECURSIVE RunAfter(_, _, _)
RunAfter(self, i, ran) ==
    IF i > Len(model_validators)
    THEN [status |-> "ok", instance |-> {self}, errors |-> <<>>, ran |-> ran]
    ELSE LET name == model_validators[i]
             e == RunValidator(name, self)
         IN IF e # <<>>
            THEN [status |-> "error", instance |-> {}, errors |-> e,
                  ran |-> Append(ran, name)]
            ELSE RunAfter(self, i + 1, Append(ran, name))

\* Settings(**payload)
construct(p) ==
    IF FieldErrors(p) # <<>>
    THEN [status |-> "error", instance |-> {}, errors |-> FieldErrors(p), ran |-> <<>>]
    ELSE RunAfter(Build(p), 1, <<>>)

Pending == [status |-> "pending", instance |-> {}, errors |-> <<>>, ran |-> <<>>]

(***************************************************************************)
(* The hooks.                                                              *)
(***************************************************************************)
PluginPaths == { <<"cat", "plugins", "whispering_cat">>, <<"opt", "wc">> }

SettingKeys == {"use_local_model", "w_model_size"}

\* what plugin.load_settings() can return: None, or a mapping (keys = its
\* key set; the value of an absent key is a fixed placeholder)
LoadedSettings ==
    { s \in [null : BOOLEAN, keys : SUBSET SettingKeys,
             use_local_model : BOOLEAN, w_model_size : {"", "base", "Other"}] :
        /\ s.null => s.keys = {}
        /\ ("use_local_model" \notin s.keys) => ~s.use_local_model
        /\ ("w_model_size" \in s.keys) <=> (s.w_model_size # "") }

Plugins == [path : PluginPaths, settings : LoadedSettings]

\* bool(settings): None and {} are falsy
SettingsTruthy(s) == ~s.null /\ s.keys # {}

\* Path(path) / "models"
ModelsDir(path) == Append(path, "models")

Call(s, lw) == [settings |-> s, download_path |-> lw.download_path]

Outcome(lw, c, r) == [lw |-> lw, calls |-> c, raised |-> r]

\* LocalWhisper.get_instance(settings): create or fetch the cached model;
\* a failure inside the provider propagates
get_instance(lw, s) ==
    { Outcome([lw EXCEPT !.loaded = TRUE], <<Call(s, lw)>>, "none"),
      Outcome(lw, <<Call(s, lw)>>, "ProviderError") }

\* variant: the use_local_model entry is looked up without the "settings and" guard
LoadIfLocal_no_guard(lw, s) ==
    IF s.null \/ "use_local_model" \notin s.keys THEN { Outcome(lw, <<>>, "KeyError") }
    ELSE IF s.use_local_model THEN get_instance(lw, s)
    ELSE { Outcome(lw, <<>>, "none") }

\* variant: the value of use_local_model is not tested
LoadIfLocal_always(lw, s) ==
    IF ~SettingsTruthy(s) THEN { Outcome(lw, <<>>, "none") }
    ELSE IF "use_local_model" \notin s.keys THEN { Outcome(lw, <<>>, "KeyError") }
    ELSE get_instance(lw, s)

\* variant: settings.get("use_local_model", True)
LoadIfLocal_get_default(lw, s) ==
    IF ~SettingsTruthy(s) THEN { Outcome(lw, <<>>, "none") }
    ELSE IF "use_local_model" \notin s.keys \/ s.use_local_model THEN get_instance(lw, s)
    ELSE { Outcome(lw, <<>>, "none") }

\* if settings and settings["use_local_model"]: LocalWhisper.get_instance(settings)
LoadIfLocal(lw, s) ==
    IF ~SettingsTruthy(s) THEN { Outcome(lw, <<>>, "none") }
    ELSE IF "use_local_model" \notin s.keys THEN { Outcome(lw, <<>>, "KeyError") }
    ELSE IF s.use_local_model THEN get_instance(lw, s)
    ELSE { Outcome(lw, <<>>, "none") }

\* variant: download_path is assigned after the model is acquired
activated_late_path(lw, plugin) ==
    { Outcome([o.lw EXCEPT !.download_path = ModelsDir(plugin.path)], o.calls, o.raised) :
        o \in LoadIfLocal(lw, plugin.settings) }

\* def activated(plugin)
activated(lw, plugin) ==
    LoadIfLocal([lw EXCEPT !.download_path = ModelsDir(plugin.path)], plugin.settings)

\* variant: download_path is left as it was
after_cat_bootstrap_no_path(lw, registryPlugin, catPlugin) ==
    LoadIfLocal(lw, catPlugin.settings)

\* def after_cat_bootstrap(cat): the path comes from MadHatter().get_plugin(),
\* the settings from cat.mad_hatter.get_plugin()
after_cat_bootstrap(lw, registryPlugin, catPlugin) ==
    LoadIfLocal([lw EXCEPT !.download_path = ModelsDir(registryPlugin.path)],
                catPlugin.settings)

NoInvocation == [trigger |-> "none", path |-> <<>>,
                 settings |-> [null |-> TRUE, keys |-> {},
                               use_local_model |-> FALSE, w_model_size |-> ""]]

(***************************************************************************)
(* Specifications.                                                         *)
(***************************************************************************)
InitTriggerVars ==
    /\ LocalWhisper = [download_path |-> <<>>, loaded |-> FALSE]
    /\ calls = <<>>
    /\ raised = "none"
    /\ last = NoInvocation
    /\ invocations = 0

\* settings construction: the payload is drawn, Construct applies Settings(**payload)
InitSettings ==
    /\ payload \in Payloads
    /\ result = Pending
    /\ InitTriggerVars

Construct ==
    /\ result.status = "pending"
    /\ result' = construct(payload)
    /\ UNCHANGED <<payload, triggerVars>>

NextSettings == Construct

SpecSettings == InitSettings /\ [][NextSettings]_vars

\* the hooks: the module is loaded, no hook has run
Init ==
    /\ payload = EmptyPayload
    /\ result = Pending
    /\ InitTriggerVars

Apply(o, name, plugin) ==
    /\ LocalWhisper' = o.lw
    /\ calls' = o.calls
    /\ raised' = o.raised
    /\ last' = [trigger |-> name, path |-> plugin.path, settings |-> plugin.settings]
    /\ invocations' = invocations + 1
    /\ UNCHANGED settingsVars

Activated ==
    /\ invocations < MaxInvocations
    /\ \E plugin \in Plugins :
         \E o \in activated(LocalWhisper, plugin) : Apply(o, "activated", plugin)

\* MadHatter is a singleton: MadHatter().get_plugin() and
\* cat.mad_hatter.get_plugin() are the same plugin
AfterCatBootstrap ==
    /\ invocations < MaxInvocations
    /\ \E plugin \in Plugins :
         \E o \in after_cat_bootstrap(LocalWhisper, plugin, plugin) :
            Apply(o, "after_cat_bootstrap", plugin)

Next == Activated \/ AfterCatBootstrap

Spec == Init /\ [][Next]_vars

(***************************************************************************)
(* Properties of Settings construction (checked under SpecSettings).       *)
(***************************************************************************)
Constructed == result.status # "pending"

\* the payload's raw values, read without the model of the validation
WorkersTooLow == payload.n_workers.present /\ payload.n_workers.v < 1

SizeIsOther == payload.w_model_size.present /\ payload.w_model_size.v = "Other"

PathEmpty == ~payload.w_model_path_or_id.present \/ payload.w_model_path_or_id.v = ""

OnlineMode == payload.use_local_model.present /\ payload.use_local_model.v = FALSE

KeyEmpty == ~payload.api_key.present \/ payload.api_key.v = ""

ViolatesA == SizeIsOther /\ PathEmpty

ViolatesB == OnlineMode /\ KeyEmpty

EnumFieldsValid ==
    /\ payload.language.present => payload.language.v \in {"en", "it", "fr"}
    /\ payload.w_model_size.present => payload.w_model_size.v \in {"base", "tiny", "Other"}
    /\ payload.device.present => payload.device.v \in {"auto", "cpu", "cuda"}
    /\ payload.compute_type.present => payload.compute_type.v \in {"float32", "int8"}

FieldsValid == EnumFieldsValid /\ ~WorkersTooLow

\* every field the given set does not name is absent or holds its default
OthersDefault(named) ==
    /\ "language" \in named \/ ~payload.language.present \/ payload.language.v = "en"
    /\ "use_local_model" \in named \/ ~payload.use_local_model.present
         \/ payload.use_local_model.v = TRUE
    /\ "api_key" \in named \/ ~payload.api_key.present \/ payload.api_key.v = ""
    /\ "w_model_size" \in named \/ ~payload.w_model_size.present
         \/ payload.w_model_size.v = "base"
    /\ "device" \in named \/ ~payload.device.present \/ payload.device.v = "auto"
    /\ "n_workers" \in named \/ ~payload.n_workers.present \/ payload.n_workers.v = 1
    /\ "compute_type" \in named \/ ~payload.compute_type.present
         \/ payload.compute_type.v = "float32"
    /\ "w_model_path_or_id" \in named \/ ~payload.w_model_path_or_id.present
         \/ payload.w_model_path_or_id.v = ""

ErrorMsgs == { result.errors[i].msg : i \in 1 .. Len(result.errors) }

\* C1: every instance construct returns has n_workers >= 1, a non-empty
\* w_model_path_or_id when w_model_size is OTHER, and a non-empty api_key when
\* use_local_model is false; every payload that violates one of the three
\* fails with a validation error and produces no instance.
C1_InvariantsOrFailure ==
    /\ result.status = "ok" =>
         /\ Cardinality(result.instance) = 1
         /\ result.errors = <<>>
         /\ \A s \in result.instance :
              /\ s.n_workers >= 1
              /\ s.w_model_size.name = "OTHER" => s.w_model_path_or_id # ""
              /\ s.use_local_model = FALSE => s.api_key.value # ""
    /\ (Constructed /\ (WorkersTooLow \/ ViolatesA \/ ViolatesB)) =>
         /\ result.status = "error"
         /\ result.instance = {}
         /\ result.errors # <<>>

C1_Witness ==
    /\ result.status = "ok"
    /\ SizeIsOther
    /\ OnlineMode
    /\ payload.n_workers.present /\ payload.n_workers.v > 1

\* C2 as stated: OTHER with an empty path always fails with exactly the
\* "Custom Model Path ..." error; OTHER with a non-empty path and every other
\* field at its default succeeds.
C2_Original ==
    /\ (Constructed /\ ViolatesA) =>
         /\ result.status = "error"
         /\ result.errors = <<Err("", MsgModelPath)>>
    /\ (Constructed /\ SizeIsOther /\ ~PathEmpty
          /\ OthersDefault({"w_model_size", "w_model_path_or_id"})) =>
         result.status = "ok"

\* C2 amended: OTHER with an empty path always fails, and the error is exactly
\* the "Custom Model Path ..." error whenever every per-field check passes
\* (otherwise the per-field errors are reported and the rule is not run);
\* OTHER with a non-empty path and every other field at its default succeeds.
C2_Amended ==
    /\ (Constructed /\ ViolatesA) =>
         /\ result.status = "error"
         /\ result.instance = {}
         /\ FieldsValid => result.errors = <<Err("", MsgModelPath)>>
         /\ ~FieldsValid => MsgModelPath \notin ErrorMsgs
    /\ (Constructed /\ SizeIsOther /\ ~PathEmpty
          /\ OthersDefault({"w_model_size", "w_model_path_or_id"})) =>
         result.status = "ok"

C2_Witness ==
    /\ Constructed
    /\ ViolatesA
    /\ FieldsValid
    /\ result.errors = <<Err("", MsgModelPath)>>

\* C3 as stated: online mode with an empty api_key always fails with exactly
\* the "OpenAI API Key ..." error; online mode with a non-empty api_key and
\* every other field at its default succeeds.
C3_Original ==
    /\ (Constructed /\ ViolatesB) =>
         /\ result.status = "error"
         /\ result.errors = <<Err("", MsgApiKey)>>
    /\ (Constructed /\ OnlineMode /\ ~KeyEmpty
          /\ OthersDefault({"use_local_model", "api_key"})) =>
         result.status = "ok"

\* C3 amended: online mode with an empty api_key always fails, and the error
\* is exactly the "OpenAI API Key ..." error whenever every per-field check
\* passes and the model-path rule is not violated (otherwise those errors are
\* reported and the api-key rule is not run); online mode with a non-empty
\* api_key and every other field at its default succeeds.
C3_Amended ==
    /\ (Constructed /\ ViolatesB) =>
         /\ result.status = "error"
         /\ result.instance = {}
         /\ (FieldsValid /\ ~ViolatesA) => result.errors = <<Err("", MsgApiKey)>>
         /\ (~FieldsValid \/ ViolatesA) => MsgApiKey \notin ErrorMsgs
    /\ (Constructed /\ OnlineMode /\ ~KeyEmpty
          /\ OthersDefault({"use_local_model", "api_key"})) =>
         result.status = "ok"

C3_Witness ==
    /\ Constructed
    /\ ViolatesB
    /\ payload.api_key.present
    /\ result.errors = <<Err("", MsgApiKey)>>

\* C4: the empty payload constructs successfully, and in every constructed
\* instance each field absent from the payload holds its default: language EN,
\* use_local_model true, api_key "", w_model_size BASE, device AUTO,
\* n_workers 1, compute_type FLOAT32, w_model_path_or_id "".
C4_Defaults ==
    /\ (Constructed /\ payload = EmptyPayload) => result.status = "ok"
    /\ \A s \in result.instance :
         /\ ~payload.language.present => s.language = [name |-> "EN", value |-> "en"]
         /\ ~payload.use_local_model.present => s.use_local_model = TRUE
         /\ ~payload.api_key.present => s.api_key.value = ""
         /\ ~payload.w_model_size.present =>
              s.w_model_size = [name |-> "BASE", value |-> "base"]
         /\ ~payload.device.present => s.device = [name |-> "AUTO", value |-> "auto"]
         /\ ~payload.n_workers.present => s.n_workers = 1
         /\ ~payload.compute_type.present =>
              s.compute_type = [name |-> "FLOAT32", value |-> "float32"]
         /\ ~payload.w_model_path_or_id.present => s.w_model_path_or_id = ""

C4_Witness ==
    /\ payload = EmptyPayload
    /\ result.status = "ok"
    /\ \E s \in result.instance : s.n_workers = 1 /\ s.language.name = "EN"

IsPrefix(a, b) == Len(a) <= Len(b) /\ \A i \in 1 .. Len(a) : a[i] = b[i]

\* C7: validation runs per-field checks, then the model-path rule, then the
\* api-key rule, and a failing stage ends it: n_workers < 1 fails with neither
\* cross-field error reported, a payload violating both cross-field rules
\* fails with the model-path error only, and the two cross-field errors are
\* never reported together.
C7_ValidationOrder ==
    /\ IsPrefix(result.ran, <<"validate_model_path_or_id", "validate_api_key">>)
    /\ (Constructed /\ ~FieldsValid) =>
         /\ result.status = "error"
         /\ result.ran = <<>>
         /\ ErrorMsgs \cap {MsgModelPath, MsgApiKey} = {}
    /\ (Constructed /\ FieldsValid /\ ViolatesA) =>
         /\ result.errors = <<Err("", MsgModelPath)>>
         /\ result.ran = <<"validate_model_path_or_id">>
    /\ (Constructed /\ FieldsValid /\ ~ViolatesA /\ ViolatesB) =>
         result.errors = <<Err("", MsgApiKey)>>
    /\ ~({MsgModelPath, MsgApiKey} \subseteq ErrorMsgs)

C7_Witness ==
    /\ Constructed
    /\ FieldsValid
    /\ ViolatesA
    /\ ViolatesB
    /\ result.errors = <<Err("", MsgModelPath)>>

(***************************************************************************)
(* Properties of the hooks (checked under Spec).                           *)
(***************************************************************************)
HasLocalFlag == "use_local_model" \in last.settings.keys

LoadCondition ==
    /\ ~last.settings.null
    /\ last.settings.keys # {}
    /\ HasLocalFlag
    /\ last.settings.use_local_model

\* C5: one invocation of activated with a non-empty mapping whose
\* use_local_model is true issues exactly one get_instance call, with that
\* mapping, made when download_path already is <plugin path>/models.
C5_OneCallAfterPath ==
    (last.trigger = "activated" /\ LoadCondition) =>
        /\ Len(calls) = 1
        /\ calls[1].settings = last.settings
        /\ calls[1].download_path = last.path \o <<"models">>

C5_Witness ==
    /\ last.trigger = "activated"
    /\ LoadCondition
    /\ Len(calls) = 1
    /\ invocations > 1
    /\ LocalWhisper.loaded

\* C6: a hook whose loader yields None or an empty mapping, or settings whose
\* use_local_model is false, issues no get_instance call and raises nothing.
C6_SilentSkip ==
    (last.trigger # "none"
       /\ (\/ last.settings.null
           \/ last.settings.keys = {}
           \/ (HasLocalFlag /\ ~last.settings.use_local_model))) =>
        /\ calls = <<>>
        /\ raised = "none"

C6_Witness ==
    /\ last.trigger = "after_cat_bootstrap"
    /\ ~last.settings.null
    /\ last.settings.keys = {}
    /\ calls = <<>>
    /\ raised = "none"

\* C8: from the same provider state, for the same plugin path and the same
\* loaded settings, activated and after_cat_bootstrap have the same outcomes:
\* the same download_path, the same get_instance calls, the same errors.
C8_HooksEquivalent ==
    \A plugin \in Plugins :
        activated(LocalWhisper, plugin) = after_cat_bootstrap(LocalWhisper, plugin, plugin)

C8_Witness ==
    /\ last.trigger = "after_cat_bootstrap"
    /\ invocations > 1
    /\ LocalWhisper.loaded
    /\ Len(calls) = 1
    /\ LocalWhisper.download_path = last.path \o <<"models">>

\* C9: the local-model state only moves from unloaded to loaded: it becomes
\* loaded only in an invocation whose settings are non-empty with
\* use_local_model true, and once loaded no invocation unloads it.
C9_OneWay ==
    [][ /\ LocalWhisper.loaded => LocalWhisper'.loaded
        /\ (~LocalWhisper.loaded /\ LocalWhisper'.loaded) =>
             /\ ~last'.settings.null
             /\ "use_local_model" \in last'.settings.keys
             /\ last'.settings.use_local_model ]_vars

C9_Witness ==
    /\ LocalWhisper.loaded
    /\ last.trigger # "none"
    /\ last.settings.null

\* C10: a non-empty loaded mapping without a use_local_model entry makes the
\* hook fail with a key-lookup error, after download_path has been set and
\* without any get_instance call.
C10_MissingKeyRaises ==
    (last.trigger # "none" /\ ~last.settings.null /\ last.settings.keys # {}
       /\ ~HasLocalFlag) =>
        /\ raised = "KeyError"
        /\ calls = <<>>
        /\ LocalWhisper.download_path = last.path \o <<"models">>

C10_Witness ==
    /\ last.trigger = "activated"
    /\ last.settings.keys = {"w_model_size"}
    /\ raised = "KeyError"
    /\ LocalWhisper.download_path = last.path \o <<"models">>

====
